---- MODULE Spec2Model ----
\* Model of src/lib/micronutrients-flexible.ts (FlexibleMicronutrientService):
\* the five-tier guideline resolver, the requirement adjuster, the requirements
\* store operations and the intake comparator.
\*
\* Numbers: the code computes on IEEE doubles; the model computes on exact
\* rationals (n/d, kept in lowest terms), so a product is the mathematical one.
EXTENDS Integers, Sequences, FiniteSets, TLC

VARIABLES
    adj,        \* one applyAdjustments call: inputs, heap of nutrient objects, position
    calc,       \* one calculateClientRequirements call (getGuidelines, then the adjuster)
    store,      \* client_micronutrient_requirements_flexible: sequence of records
    calls,      \* saveClientRequirements calls: position, input, what each query reported
    reads,      \* the latest getActiveClientRequirements call and what it returned
    cmp         \* one compareIntakeWithRequirements call: inputs and result

vars == <<adj, calc, store, calls, reads, cmp>>

\* ---------------------------------------------------------------- bounds

\* Base amounts are 100, 200, ..., 100 * MaxAmount.
MaxAmount == 4

\* Calls of saveClientRequirements made one at a time, calls made when they may
\* overlap, and clients.
MaxCalls == 2
MaxOverlapping == 2
MaxClients == 2

\* Intakes are 0, 10, ..., 10 * MaxIntake.
MaxIntake == 21

\* Rows per reference table, and the upper end of the second age band.
MaxRows == 2
MaxAge == 3

\* ---------------------------------------------------------------- numbers

RECURSIVE GCD(_, _)
GCD(a, b) == IF b = 0 THEN a ELSE GCD(b, a % b)

\* A JSON value of a NutrientValue field: a number, null, or the field is absent.
Num(n, d) == LET g == GCD(n, d) IN
    IF n = 0 THEN [k |-> "num", n |-> 0, d |-> 1]
    ELSE [k |-> "num", n |-> n \div g, d |-> d \div g]
Null == [k |-> "null", n |-> 0, d |-> 1]
Absent == [k |-> "absent", n |-> 0, d |-> 1]

\* JavaScript truthiness of a field value: a non-zero number.
Truthy(v) == v.k = "num" /\ v.n # 0

\* value * multiplier, the multiplier a pair <<numerator, denominator>>.
Times(v, m) == Num(v.n * m[1], v.d * m[2])

\* ---------------------------------------------------------------- nutrient values

Countries == {"UK", "US", "India", "EU", "WHO"}

Fields == {"rda", "rni", "pri", "ai", "ul", "lrni"}

\* `'f' in nutrient && nutrient.f !== null && nutrient.f !== undefined`
PresentNonNull(nutrient, f) == nutrient[f].k = "num"

\* getPrimaryValue of ../types/micronutrients: the primary recommended value of
\* a nutrient for a guideline source, null when there is none.
getPrimaryValue(nutrient, country) ==
    LET pick(f) == IF PresentNonNull(nutrient, f) THEN nutrient[f] ELSE Null IN
    CASE country = "UK" -> pick("rni")
      [] country = "EU" -> IF PresentNonNull(nutrient, "pri") THEN nutrient.pri ELSE pick("ai")
      [] country = "WHO" -> IF PresentNonNull(nutrient, "rni") THEN nutrient.rni ELSE pick("ai")
      [] OTHER -> pick("rda")

\* getUpperLimit / getLowerLimit of ../types/micronutrients.
getUpperLimit(nutrient, country) ==
    IF PresentNonNull(nutrient, "ul") THEN nutrient.ul ELSE Null
getLowerLimit(nutrient, country) ==
    IF PresentNonNull(nutrient, "lrni") THEN nutrient.lrni ELSE Null

\* A faulty variant of updatePrimaryValue: EU and WHO always write the first-choice field.
updatePrimaryValueNoFallback(nutrient, country, newValue) ==
    CASE country = "UK" -> [nutrient EXCEPT !.rni = newValue]
      [] country = "EU" -> [nutrient EXCEPT !.pri = newValue]
      [] country = "WHO" -> [nutrient EXCEPT !.rni = newValue]
      [] OTHER -> [nutrient EXCEPT !.rda = newValue]

\* updatePrimaryValue: the nutrient object after the assignment.
updatePrimaryValue(nutrient, country, newValue) ==
    CASE country = "UK" -> [nutrient EXCEPT !.rni = newValue]
      [] country = "EU" ->
            IF PresentNonNull(nutrient, "pri") THEN [nutrient EXCEPT !.pri = newValue]
            ELSE IF nutrient.ai.k # "absent" THEN [nutrient EXCEPT !.ai = newValue]
            ELSE nutrient
      [] country = "WHO" ->
            IF PresentNonNull(nutrient, "rni") THEN [nutrient EXCEPT !.rni = newValue]
            ELSE IF nutrient.ai.k # "absent" THEN [nutrient EXCEPT !.ai = newValue]
            ELSE nutrient
      [] OTHER -> [nutrient EXCEPT !.rda = newValue]

\* ---------------------------------------------------------------- multiplier tables
\* Each table is the object literal of the source, as its entries in source
\* order: <<key, <<numerator, denominator>>>>.

pregnancyAdjustments == <<
    <<"folate", <<15, 10>>>>, <<"iron", <<15, 10>>>>, <<"vitamin_d", <<10, 10>>>>,
    <<"vitamin_c", <<11, 10>>>>, <<"calcium", <<10, 10>>>>, <<"iodine", <<15, 10>>>>,
    <<"vitamin_b12", <<11, 10>>>>, <<"zinc", <<12, 10>>>>, <<"vitamin_a", <<11, 10>>>>,
    <<"thiamin", <<12, 10>>>>, <<"riboflavin", <<12, 10>>>>, <<"niacin", <<11, 10>>>>,
    <<"vitamin_b6", <<15, 10>>>> >>

lactationAdjustments == <<
    <<"vitamin_a", <<14, 10>>>>, <<"vitamin_c", <<15, 10>>>>, <<"calcium", <<10, 10>>>>,
    <<"iodine", <<15, 10>>>>, <<"zinc", <<13, 10>>>>, <<"vitamin_b12", <<12, 10>>>>,
    <<"riboflavin", <<13, 10>>>> >>

\* activityLevel === 'very_active' ? 1.2 : activityLevel === 'active' ? 1.1 : 1.05
activityMultiplier(activityLevel) ==
    IF activityLevel = "very_active" THEN <<120, 100>>
    ELSE IF activityLevel = "active" THEN <<110, 100>>
    ELSE <<105, 100>>

activityAdjustments(activityLevel) == LET m == activityMultiplier(activityLevel) IN <<
    <<"thiamin", m>>, <<"riboflavin", m>>, <<"niacin", m>>, <<"iron", m>>,
    <<"magnesium", m>>, <<"zinc", <<m[1] * 9, m[2] * 10>>>> >>

\* The multiplier a table gives a key; 1 when the key is not listed.
RECURSIVE MultiplierOf(_, _)
MultiplierOf(multipliers, key) ==
    IF multipliers = <<>> THEN <<1, 1>>
    ELSE IF Head(multipliers)[1] = key THEN Head(multipliers)[2]
    ELSE MultiplierOf(Tail(multipliers), key)

\* The keys a multiplier table lists.
RECURSIVE KeysOf(_)
KeysOf(multipliers) ==
    IF multipliers = <<>> THEN {} ELSE {Head(multipliers)[1]} \cup KeysOf(Tail(multipliers))

\* ---------------------------------------------------------------- the adjuster
\* Memory is a heap: a sequence of nutrient objects, an object's address its
\* index. A nutrient table (Record<string, NutrientValue>) is a function from
\* its keys to addresses.

\* A faulty variant of DeepClone: a shallow copy that shares the nutrient objects.
ShallowClone(heap, refs) == [heap |-> heap, refs |-> refs]

\* JSON.parse(JSON.stringify(table)): a fresh object per key, equal field by field.
RECURSIVE CloneKeys(_, _, _, _)
CloneKeys(heap, refs, todo, out) ==
    IF todo = {} THEN [heap |-> heap, refs |-> out]
    ELSE LET key == CHOOSE x \in todo : TRUE IN
         CloneKeys(Append(heap, heap[refs[key]]), refs, todo \ {key},
                   [x \in DOMAIN out \cup {key} |->
                        IF x = key THEN Len(heap) + 1 ELSE out[x]])

DeepClone(heap, refs) == CloneKeys(heap, refs, DOMAIN refs, [x \in {} |-> 0])

\* applyMultipliers: for each entry of the multiplier table in order, when the
\* table has the key and its primary value is truthy, the primary field of that
\* object is overwritten by primary * multiplier.
RECURSIVE applyMultipliers(_, _, _, _)
applyMultipliers(heap, refs, country, multipliers) ==
    IF multipliers = <<>> THEN heap
    ELSE LET key == Head(multipliers)[1]
             multiplier == Head(multipliers)[2]
             next ==
                IF key \in DOMAIN refs
                THEN LET nutrient == heap[refs[key]]
                         primaryValue == getPrimaryValue(nutrient, country) IN
                     IF Truthy(primaryValue)
                     THEN [heap EXCEPT ![refs[key]] =
                            updatePrimaryValue(nutrient, country, Times(primaryValue, multiplier))]
                     ELSE heap
                ELSE heap
         IN applyMultipliers(next, refs, country, Tail(multipliers))

\* A faulty variant of adjustForPregnancy: the lactation table is applied instead.
adjustForPregnancyWrongTable(heap, refs, country) ==
    applyMultipliers(heap, refs, country, lactationAdjustments)

adjustForPregnancy(heap, refs, country) ==
    applyMultipliers(heap, refs, country, pregnancyAdjustments)

adjustForLactation(heap, refs, country) ==
    applyMultipliers(heap, refs, country, lactationAdjustments)

adjustForActivity(heap, refs, country, activityLevel) ==
    applyMultipliers(heap, refs, country, activityAdjustments(activityLevel))

\* The factors argument: absent, or an object whose fields may be undefined.
Undefined == "undefined"
NoFactors == [given |-> FALSE, pregnancy |-> FALSE, lactation |-> FALSE,
              activityLevel |-> Undefined]

\* `factors.activityLevel && factors.activityLevel !== 'sedentary'`
ActivityApplies(factors) ==
    factors.activityLevel # Undefined /\ factors.activityLevel # "sedentary"

\* applyAdjustments: the heap after the call and the returned table.
applyAdjustments(heap, baseMicronutrients, country, factors) ==
    LET adjusted == DeepClone(heap, baseMicronutrients)
        h1 == IF ActivityApplies(factors)
              THEN adjustForActivity(adjusted.heap, adjusted.refs, country, factors.activityLevel)
              ELSE adjusted.heap
        h2 == IF factors.pregnancy THEN adjustForPregnancy(h1, adjusted.refs, country) ELSE h1
        h3 == IF factors.lactation THEN adjustForLactation(h2, adjusted.refs, country) ELSE h2
    IN IF ~factors.given THEN adjusted ELSE [heap |-> h3, refs |-> adjusted.refs]

\* The table as a value: key -> nutrient object contents.
Deref(heap, refs) == [key \in DOMAIN refs |-> heap[refs[key]]]

\* ---------------------------------------------------------------- inputs of the adjuster

\* A NutrientValue of each shape the guideline sources use, at base amount 100 * a.
Nutrient(rda, rni, pri, ai, ul, lrni) ==
    [rda |-> rda, rni |-> rni, pri |-> pri, ai |-> ai, ul |-> ul, lrni |-> lrni]

ShapeKinds == {"us", "uk", "eu", "eu_ai", "all", "zero", "empty"}

Shape(kind, a) ==
    CASE kind = "us" -> Nutrient(Num(100 * a, 1), Absent, Absent, Absent, Num(1000 * a, 1), Absent)
      [] kind = "uk" -> Nutrient(Absent, Num(100 * a, 1), Absent, Absent, Num(1000 * a, 1), Num(50 * a, 1))
      [] kind = "eu" -> Nutrient(Absent, Absent, Num(100 * a, 1), Num(90 * a, 1), Num(1000 * a, 1), Absent)
      [] kind = "eu_ai" -> Nutrient(Absent, Null, Null, Num(100 * a, 1), Absent, Absent)
      [] kind = "all" -> Nutrient(Num(100 * a, 1), Num(110 * a, 1), Num(120 * a, 1), Num(130 * a, 1),
                                  Num(1000 * a, 1), Num(50 * a, 1))
      [] kind = "zero" -> Nutrient(Num(0, 1), Num(0, 1), Num(0, 1), Num(100 * a, 1), Num(1000 * a, 1), Absent)
      [] OTHER -> Nutrient(Absent, Absent, Absent, Absent, Absent, Absent)

\* Keys of the input tables: folate (pregnancy table only), zinc (all three
\* tables), selenium (in no table).
AdjKeys == {"folate", "zinc", "selenium"}

\* The heap and table holding one nutrient of the given shape per key.
RECURSIVE BuildTable(_, _, _, _)
BuildTable(todo, nutrient, heap, refs) ==
    IF todo = {} THEN [heap |-> heap, refs |-> refs]
    ELSE LET key == CHOOSE x \in todo : TRUE IN
         BuildTable(todo \ {key}, nutrient, Append(heap, nutrient),
                    [x \in DOMAIN refs \cup {key} |-> IF x = key THEN Len(heap) + 1 ELSE refs[x]])

EmptyRefs == [x \in {} |-> 0]

ActivityLevels == {Undefined, "sedentary", "moderate", "active", "very_active"}

FactorChoices == {NoFactors} \cup
    [given : {TRUE}, pregnancy : BOOLEAN, lactation : BOOLEAN, activityLevel : ActivityLevels]

AdjIdle == [pc |-> "idle", country |-> "US", factors |-> NoFactors, heap |-> <<>>,
            base |-> EmptyRefs, before |-> EmptyRefs, adjusted |-> EmptyRefs,
            prev |-> <<>>, pass |-> "none", multipliers |-> <<>>]

AdjInit ==
    \E keys \in SUBSET AdjKeys, kind \in ShapeKinds, a \in 1..MaxAmount,
       country \in Countries, factors \in FactorChoices :
        LET t == BuildTable(keys, Shape(kind, a), <<>>, EmptyRefs) IN
        adj = [pc |-> "call", country |-> country, factors |-> factors, heap |-> t.heap,
               base |-> t.refs, before |-> Deref(t.heap, t.refs), adjusted |-> EmptyRefs,
               prev |-> <<>>, pass |-> "none", multipliers |-> <<>>]

\* ---------------------------------------------------------------- steps of applyAdjustments
\* prev, pass and multipliers record the heap before the last pass that ran and
\* the multiplier table it applied.

\* line 272-274: clone; return the clone when no factors were given.
AdjClone ==
    /\ adj.pc = "call"
    /\ LET c == DeepClone(adj.heap, adj.base) IN
       adj' = [adj EXCEPT !.heap = c.heap, !.adjusted = c.refs, !.prev = c.heap,
                          !.pc = IF adj.factors.given THEN "activity" ELSE "done"]
    /\ UNCHANGED <<calc, store, calls, reads, cmp>>

\* line 277-279
AdjActivity ==
    /\ adj.pc = "activity"
    /\ IF ActivityApplies(adj.factors)
       THEN adj' = [adj EXCEPT
                !.heap = adjustForActivity(adj.heap, adj.adjusted, adj.country, adj.factors.activityLevel),
                !.prev = adj.heap, !.pass = "activity",
                !.multipliers = activityAdjustments(adj.factors.activityLevel),
                !.pc = "pregnancy"]
       ELSE adj' = [adj EXCEPT !.pc = "pregnancy"]
    /\ UNCHANGED <<calc, store, calls, reads, cmp>>

\* line 282-284
AdjPregnancy ==
    /\ adj.pc = "pregnancy"
    /\ IF adj.factors.pregnancy
       THEN adj' = [adj EXCEPT
                !.heap = adjustForPregnancy(adj.heap, adj.adjusted, adj.country),
                !.prev = adj.heap, !.pass = "pregnancy",
                !.multipliers = pregnancyAdjustments, !.pc = "lactation"]
       ELSE adj' = [adj EXCEPT !.pc = "lactation"]
    /\ UNCHANGED <<calc, store, calls, reads, cmp>>

\* line 287-291
AdjLactation ==
    /\ adj.pc = "lactation"
    /\ IF adj.factors.lactation
       THEN adj' = [adj EXCEPT
                !.heap = adjustForLactation(adj.heap, adj.adjusted, adj.country),
                !.prev = adj.heap, !.pass = "lactation",
                !.multipliers = lactationAdjustments, !.pc = "done"]
       ELSE adj' = [adj EXCEPT !.pc = "done"]
    /\ UNCHANGED <<calc, store, calls, reads, cmp>>

AdjNext == AdjClone \/ AdjActivity \/ AdjPregnancy \/ AdjLactation

\* ---------------------------------------------------------------- notes text
\* A notes value is SQL NULL or a string, a string being the sequence of its
\* characters.

NullNotes == <<"NULL">>

Lower(c) ==
    CASE c = "A" -> "a" [] c = "L" -> "l" [] c = "P" -> "p" [] OTHER -> c

LowerAll(text) == [i \in 1..Len(text) |-> Lower(text[i])]

\* String.prototype.includes: case-sensitive substring.
Includes(text, pattern) ==
    \E i \in 0..(Len(text) - Len(pattern)) : SubSeq(text, i + 1, i + Len(pattern)) = pattern

\* notes ILIKE '%pattern%': case-insensitive substring; not true of NULL.
ILike(notes, pattern) ==
    notes # NullNotes /\ Includes(LowerAll(notes), LowerAll(pattern))

\* NOT (notes ILIKE '%pattern%'): not true of NULL either (NULL is not TRUE).
NotILike(notes, pattern) ==
    notes # NullNotes /\ ~Includes(LowerAll(notes), LowerAll(pattern))

text_pregnancy == <<"p", "r", "e", "g", "n", "a", "n", "c", "y">>
text_lactation == <<"l", "a", "c", "t", "a", "t", "i", "o", "n">>
text_Pregnancy == <<"P", "r", "e", "g", "n", "a", "n", "c", "y">>
text_Lactation == <<"L", "a", "c", "t", "a", "t", "i", "o", "n">>
text_Athletes == <<"A", "t", "h", "l", "e", "t", "e", "s">>

\* ---------------------------------------------------------------- the reference table

\* The notes a row may carry.
NoteChoices == {NullNotes, text_Pregnancy, text_lactation, text_Athletes}

\* Two adjacent age bands, [0, 1] and [2, MaxAge].
AgeBands == {<<0, 1>>, <<2, MaxAge>>}

RowUniverse ==
    {[country |-> c, gender |-> g, age_min |-> b[1], age_max |-> b[2], notes |-> n] :
        c \in {"US", "UK"}, g \in {"male", "female", "common"}, b \in AgeBands, n \in NoteChoices}

NoRow == [country |-> "none", gender |-> "none", age_min |-> 0, age_max |-> 0, notes |-> NullNotes]

\* The micronutrients column of a row: folate (pregnancy table), vitamin_c
\* (pregnancy and lactation tables), iron (activity and pregnancy tables) and
\* selenium (no table), in the shape of the row's source.
RowKeys == {"folate", "vitamin_c", "iron", "selenium"}
micronutrientsOf(row) ==
    [key \in RowKeys |-> Shape(IF row.country = "UK" THEN "uk" ELSE "us", 1)]

\* ---------------------------------------------------------------- getGuidelines

\* The filters of the five queries (lines 57-65, 83-91, 106-114, 129-138, 153-162).
AgeCountryMatch(row, req) ==
    row.country = req.country /\ row.age_min <= req.age /\ row.age_max >= req.age

\* line 54: const condition = pregnancy ? 'pregnancy' : 'lactation'
condition(req) == IF req.pregnancy THEN text_pregnancy ELSE text_lactation

Tier1Filter(row, req) ==
    AgeCountryMatch(row, req) /\ row.gender = req.gender /\ ILike(row.notes, condition(req))

TierFilter(n, row, req) ==
    CASE n = 1 -> Tier1Filter(row, req)
      [] n = 2 -> AgeCountryMatch(row, req) /\ row.gender = req.gender /\ row.notes = NullNotes
      [] n = 3 -> AgeCountryMatch(row, req) /\ row.gender = "common" /\ row.notes = NullNotes
      [] n = 4 -> /\ AgeCountryMatch(row, req) /\ row.gender = req.gender
                  /\ NotILike(row.notes, text_pregnancy) /\ NotILike(row.notes, text_lactation)
      [] OTHER -> /\ AgeCountryMatch(row, req) /\ row.gender = "common"
                  /\ NotILike(row.notes, text_pregnancy) /\ NotILike(row.notes, text_lactation)

\* line 53: the first query is made only for a pregnant or lactating female.
Tier1Applies(req) == req.gender = "female" /\ (req.pregnancy \/ req.lactation)

\* .single(): the one matching row as data; with no row or several, data is
\* null and the error is PGRST116.
Single(rows) == IF Cardinality(rows) = 1 THEN CHOOSE r \in rows : TRUE ELSE NoRow

\* One query of getGuidelines and the statements up to the next await. The
\* store answers (ok) or reports a failure other than PGRST116, which is thrown.
TierStep(n) ==
    /\ calc.pc = "tier" /\ calc.tier = n
    /\ IF n = 1 /\ ~Tier1Applies(calc.req)
       THEN calc' = [calc EXCEPT !.tier = 2]
       ELSE \E ok \in BOOLEAN :
            LET data == Single({r \in calc.table : TierFilter(n, r, calc.req)}) IN
            calc' = IF ~ok
                    THEN [calc EXCEPT !.pc = "done", !.outcome = "threw", !.failed = n]
                    ELSE IF data # NoRow
                    THEN [calc EXCEPT !.pc = "resolved", !.guidelines = data, !.matched = n]
                    ELSE IF n = 5 THEN [calc EXCEPT !.pc = "resolved"]
                    ELSE [calc EXCEPT !.tier = n + 1]
    /\ UNCHANGED <<adj, store, calls, reads, cmp>>

getGuidelinesTier1 == TierStep(1)
getGuidelinesTier2 == TierStep(2)
getGuidelinesTier3 == TierStep(3)
getGuidelinesTier4 == TierStep(4)
getGuidelinesTier5 == TierStep(5)

\* ---------------------------------------------------------------- calculateClientRequirements

\* line 226-227: notes && (notes.includes('Pregnancy') || notes.includes('Lactation'))
hasSpecificGuidelines(guidelines) ==
    /\ guidelines.notes # NullNotes /\ guidelines.notes # <<>>
    /\ (Includes(guidelines.notes, text_Pregnancy) \/ Includes(guidelines.notes, text_Lactation))

\* lines 223-255, after getGuidelines has returned: null when no row was found,
\* else the record built from the adjusted nutrients. activityLevel is the
\* caller's adjustmentFactors.activityLevel.
calculateClientRequirements ==
    /\ calc.pc = "resolved"
    /\ \E activityLevel \in {Undefined, "sedentary", "active"} :
        IF calc.guidelines = NoRow
        THEN calc' = [calc EXCEPT !.pc = "done", !.outcome = "null", !.activityLevel = activityLevel]
        ELSE LET specific == hasSpecificGuidelines(calc.guidelines)
                 t == BuildTable(RowKeys, Shape("empty", 1), <<>>, EmptyRefs)
                 heap == [a \in 1..Len(t.heap) |->
                            micronutrientsOf(calc.guidelines)[CHOOSE key \in RowKeys : t.refs[key] = a]]
                 r == applyAdjustments(heap, t.refs, calc.req.country,
                        [given |-> TRUE,
                         pregnancy |-> IF specific THEN FALSE ELSE calc.req.pregnancy,
                         lactation |-> IF specific THEN FALSE ELSE calc.req.lactation,
                         activityLevel |-> activityLevel])
             IN calc' = [calc EXCEPT !.pc = "done", !.outcome = "requirements",
                                     !.activityLevel = activityLevel,
                                     !.requirements = Deref(r.heap, r.refs)]
    /\ UNCHANGED <<adj, store, calls, reads, cmp>>

Requests ==
    [country : {"US", "UK"}, gender : {"male", "female"}, age : 0..(MaxAge + 1),
     pregnancy : BOOLEAN, lactation : BOOLEAN]

NoRequirements == [key \in RowKeys |-> Shape("empty", 1)]

\* The tables of at most n rows.
RECURSIVE Tables(_)
Tables(n) ==
    IF n = 0 THEN {{}}
    ELSE LET smaller == Tables(n - 1) IN
         smaller \cup {t \cup {r} : t \in smaller, r \in RowUniverse}

CalcInit ==
    \E table \in Tables(MaxRows), req \in Requests :
        /\ calc = [pc |-> "tier", tier |-> 1, table |-> table, req |-> req,
                   guidelines |-> NoRow, matched |-> 0, failed |-> 0, outcome |-> "pending",
                   activityLevel |-> Undefined, requirements |-> NoRequirements]

CalcNext ==
    \/ getGuidelinesTier1 \/ getGuidelinesTier2 \/ getGuidelinesTier3
    \/ getGuidelinesTier4 \/ getGuidelinesTier5 \/ calculateClientRequirements

\* ---------------------------------------------------------------- the requirements store
\* store is the table client_micronutrient_requirements_flexible, a row per
\* insert; `by` names the call that inserted the row. A query either is carried
\* out or reports a store failure and changes nothing.

Clients == 1..MaxClients

ActiveRows(client) == {i \in 1..Len(store) : store[i].client_id = client /\ store[i].is_active}

\* A faulty variant of Deactivated: the update leaves out the client_id filter
\* and deactivates the active rows of every client.
DeactivatedAllClients(rows, client) ==
    [i \in 1..Len(rows) |->
        IF rows[i].is_active THEN [rows[i] EXCEPT !.is_active = FALSE] ELSE rows[i]]

\* update({ is_active: false }).eq('client_id', client).eq('is_active', true)
Deactivated(rows, client) ==
    [i \in 1..Len(rows) |->
        IF rows[i].client_id = client /\ rows[i].is_active
        THEN [rows[i] EXCEPT !.is_active = FALSE] ELSE rows[i]]

\* A faulty variant of Inserted: the insert also deactivates the client's other rows (a
\* unique-active-row rule).
InsertedExclusive(rows, row) ==
    Append([i \in 1..Len(rows) |->
                IF rows[i].client_id = row.client_id
                THEN [rows[i] EXCEPT !.is_active = FALSE] ELSE rows[i]], row)

\* insert(requirements)
Inserted(rows, row) == Append(rows, row)

\* saveClientRequirements is entered (lines 416-419): the update is in flight.
\* requirements.is_active is the caller's.
SaveBegin(client, active, limit) ==
    /\ Len(calls) < limit
    /\ calls' = Append(calls, [client_id |-> client, is_active |-> active, pc |-> "deactivate",
                               deactivateFailed |-> FALSE, insertFailed |-> FALSE,
                               outcome |-> "pending", deactivatedAt |-> 0, row |-> 0])
    /\ UNCHANGED <<adj, calc, store, reads, cmp>>

\* One call at a time: a call is entered only when every earlier one has returned.
saveClientRequirementsCall ==
    /\ \A i \in 1..Len(calls) : calls[i].pc = "done"
    /\ \E client \in Clients, active \in BOOLEAN : SaveBegin(client, active, MaxCalls)

\* Calls may overlap: a call is entered at any time.
saveClientRequirementsCallConcurrent ==
    \E client \in Clients, active \in BOOLEAN : SaveBegin(client, active, MaxOverlapping)

\* lines 420-424: the deactivation update. Its result is not looked at: the
\* call goes on to the insert whether or not the store reported a failure.
\* deactivatedAt records how many rows the store held at that moment.
saveClientRequirementsDeactivate ==
    \E i \in 1..Len(calls), ok \in BOOLEAN :
        /\ calls[i].pc = "deactivate"
        /\ store' = IF ok THEN Deactivated(store, calls[i].client_id) ELSE store
        /\ calls' = [calls EXCEPT ![i].pc = "insert", ![i].deactivateFailed = ~ok,
                                  ![i].deactivatedAt = Len(store)]
        /\ UNCHANGED <<adj, calc, reads, cmp>>

\* lines 427-438: the insert; on an error the call logs it and returns null.
saveClientRequirementsInsert ==
    \E i \in 1..Len(calls), ok \in BOOLEAN :
        /\ calls[i].pc = "insert"
        /\ store' = IF ok
                    THEN Inserted(store, [client_id |-> calls[i].client_id,
                                          is_active |-> calls[i].is_active, by |-> i])
                    ELSE store
        /\ calls' = [calls EXCEPT ![i].pc = "done", ![i].insertFailed = ~ok,
                                  ![i].outcome = IF ok THEN "data" ELSE "null",
                                  ![i].row = IF ok THEN Len(store) + 1 ELSE 0]
        /\ UNCHANGED <<adj, calc, reads, cmp>>

\* The position of the latest saveClientRequirements call: how many calls were
\* entered and where the last one stands. The store changes only when it does.
Stamp == [saves |-> Len(calls),
          pc |-> IF calls = <<>> THEN "none" ELSE calls[Len(calls)].pc]

\* getActiveClientRequirements (lines 444-460): one query; .single() gives the
\* row when exactly one matches and an error otherwise; on any error the call
\* logs it and returns null. reads holds the latest call: row is the index of
\* the returned row (0 for null), stamp the position of the saves at the read.
getActiveClientRequirements ==
    \E client \in Clients, ok \in BOOLEAN :
        /\ LET rows == ActiveRows(client)
               data == IF ok /\ Cardinality(rows) = 1 THEN CHOOSE i \in rows : TRUE ELSE 0
           IN reads' = <<[client_id |-> client, failed |-> ~ok,
                          outcome |-> IF data # 0 THEN "data" ELSE "null",
                          row |-> data, stamp |-> Stamp]>>
        /\ UNCHANGED <<adj, calc, store, calls, cmp>>

StoreNextSequential ==
    \/ saveClientRequirementsCall
    \/ saveClientRequirementsDeactivate
    \/ saveClientRequirementsInsert
    \/ getActiveClientRequirements

StoreNextConcurrent ==
    \/ saveClientRequirementsCallConcurrent
    \/ saveClientRequirementsDeactivate
    \/ saveClientRequirementsInsert

\* ---------------------------------------------------------------- the comparator

Zero == Num(0, 1)

\* a < b on numbers.
Less(a, b) == a.n * b.d < b.n * a.d

\* `value || 0`
OrZero(v) == IF Truthy(v) THEN v ELSE Zero

\* A faulty variant of statusOf: the upper limit is tested before the low branches.
statusOfExcessiveFirst(country, required, intake, upperLimit, lowerLimit) ==
    IF Truthy(upperLimit) /\ Less(upperLimit, intake) THEN "excessive"
    ELSE IF country = "UK" /\ Truthy(lowerLimit)
    THEN IF Less(intake, lowerLimit) THEN "deficient"
         ELSE IF Less(intake, OrZero(required)) THEN "low"
         ELSE IF Less(Times(OrZero(required), <<15, 10>>), intake) THEN "high"
         ELSE "adequate"
    ELSE IF Less(intake, Times(OrZero(required), <<7, 10>>)) THEN "deficient"
         ELSE IF Less(intake, OrZero(required)) THEN "low"
         ELSE IF Less(Times(OrZero(required), <<15, 10>>), intake) THEN "high"
         ELSE "adequate"

\* lines 487-513: the status of one nutrient.
statusOf(country, required, intake, upperLimit, lowerLimit) ==
    IF country = "UK" /\ Truthy(lowerLimit)
    THEN IF Less(intake, lowerLimit) THEN "deficient"
         ELSE IF Less(intake, OrZero(required)) THEN "low"
         ELSE IF Truthy(upperLimit) /\ Less(upperLimit, intake) THEN "excessive"
         ELSE IF Less(Times(OrZero(required), <<15, 10>>), intake) THEN "high"
         ELSE "adequate"
    ELSE IF Less(intake, Times(OrZero(required), <<7, 10>>)) THEN "deficient"
         ELSE IF Less(intake, OrZero(required)) THEN "low"
         ELSE IF Truthy(upperLimit) /\ Less(upperLimit, intake) THEN "excessive"
         ELSE IF Less(Times(OrZero(required), <<15, 10>>), intake) THEN "high"
         ELSE "adequate"

\* lines 478-523: the entry of one nutrient. percentage is intake / required *
\* 100, and 0 when required is null or zero.
compareNutrient(nutrientKey, nutrientValue, country, dailyIntake) ==
    LET required == getPrimaryValue(nutrientValue, country)
        intake == IF nutrientKey \in DOMAIN dailyIntake THEN OrZero(dailyIntake[nutrientKey]) ELSE Zero
        upperLimit == getUpperLimit(nutrientValue, country)
        lowerLimit == getLowerLimit(nutrientValue, country)
    IN [required |-> required, intake |-> intake,
        percentage |-> IF Truthy(required)
                       THEN Num(intake.n * required.d * 100, intake.d * required.n) ELSE Zero,
        status |-> statusOf(country, required, intake, upperLimit, lowerLimit),
        upperLimit |-> upperLimit, lowerLimit |-> lowerLimit]

\* compareIntakeWithRequirements: an entry per nutrient of the recommendations.
compareIntakeWithRequirements ==
    /\ cmp.pc = "call"
    /\ cmp' = [cmp EXCEPT !.pc = "done",
                 !.comparison = [key \in DOMAIN cmp.recommendations |->
                    compareNutrient(key, cmp.recommendations[key], cmp.country, cmp.dailyIntake)]]
    /\ UNCHANGED <<adj, calc, store, calls, reads>>

\* Inputs: the primary value, upper limit and lower limit of iron each null (or
\* absent) or a number, zero included; an intake of 0, 10, ..., 10 * MaxIntake
\* or none; zinc, when present, is a fixed nutrient with no intake given.
Amounts(numbers) == {Num(n, 1) : n \in numbers}

CmpInit ==
    \E country \in {"UK", "US", "EU"},
       required \in {Null} \cup Amounts({0, 100}),
       upper \in {Absent} \cup Amounts({0, 60, 120, 200}),
       lower \in {Absent} \cup Amounts({0, 50}),
       intake \in {Absent} \cup Amounts({10 * k : k \in 0..MaxIntake}),
       withZinc \in BOOLEAN :
        LET iron == Nutrient(required, required, required, Absent, upper, lower)
            zinc == Nutrient(Num(100, 1), Num(100, 1), Num(100, 1), Absent, Absent, Absent)
        IN cmp = [pc |-> "call", country |-> country,
                  recommendations |-> IF withZinc
                                      THEN [key \in {"iron", "zinc"} |-> IF key = "iron" THEN iron ELSE zinc]
                                      ELSE [key \in {"iron"} |-> iron],
                  dailyIntake |-> IF intake = Absent THEN [key \in {} |-> Zero]
                                  ELSE [key \in {"iron"} |-> intake],
                  comparison |-> [key \in {} |-> Zero]]

CmpNext == compareIntakeWithRequirements

\* ---------------------------------------------------------------- specifications

CalcIdle == [pc |-> "idle", tier |-> 0, table |-> {}, req |-> CHOOSE r \in Requests : TRUE,
             guidelines |-> NoRow, matched |-> 0, failed |-> 0, outcome |-> "pending",
             activityLevel |-> Undefined, requirements |-> NoRequirements]
CallsIdle == <<>>
CmpIdle == [pc |-> "idle", country |-> "US", recommendations |-> [key \in {} |-> Zero],
            dailyIntake |-> [key \in {} |-> Zero], comparison |-> [key \in {} |-> Zero]]

\* applyAdjustments on every input table, country and factor set.
InitAdjust ==
    /\ AdjInit
    /\ calc = CalcIdle /\ store = <<>> /\ calls = CallsIdle /\ reads = <<>> /\ cmp = CmpIdle

SpecAdjust == InitAdjust /\ [][AdjNext]_vars

\* calculateClientRequirements on every reference table of at most MaxRows rows
\* and every request.
InitCalc ==
    /\ CalcInit
    /\ adj = AdjIdle /\ store = <<>> /\ calls = CallsIdle /\ reads = <<>> /\ cmp = CmpIdle

SpecCalc == InitCalc /\ [][CalcNext]_vars

\* The requirements store, empty at first, under saves and reads.
InitStore ==
    /\ store = <<>> /\ calls = <<>> /\ reads = <<>>
    /\ adj = AdjIdle /\ calc = CalcIdle /\ cmp = CmpIdle

\* Calls of saveClientRequirements run one at a time, with reads in between.
Spec == InitStore /\ [][StoreNextSequential]_vars

\* Calls of saveClientRequirements may overlap.
SpecConcurrent == InitStore /\ [][StoreNextConcurrent]_vars

\* compareIntakeWithRequirements on every requirement and intake.
InitCompare ==
    /\ CmpInit
    /\ adj = AdjIdle /\ calc = CalcIdle /\ store = <<>> /\ calls = CallsIdle /\ reads = <<>>

SpecCompare == InitCompare /\ [][CmpNext]_vars

\* ---------------------------------------------------------------- claims about the resolver

\* getGuidelines has returned (a row or null) without throwing.
Returned == calc.pc \in {"resolved", "done"} /\ calc.outcome # "threw"

\* The rows a client's condition selects: same country, gender and age, notes
\* mentioning pregnancy for a pregnant client or lactation for a lactating one.
SpecificRows ==
    {r \in calc.table :
        /\ AgeCountryMatch(r, calc.req) /\ r.gender = calc.req.gender
        /\ \/ calc.req.pregnancy /\ ILike(r.notes, text_pregnancy)
           \/ calc.req.lactation /\ ILike(r.notes, text_lactation)}

GenericRows ==
    {r \in calc.table :
        AgeCountryMatch(r, calc.req) /\ r.gender = calc.req.gender /\ r.notes = NullNotes}

\* C1: for a pregnant or lactating female whose table holds both a row specific
\* to a condition of hers and a generic row for the same country, gender and
\* age, getGuidelines returns a specific row, never the generic one.
C1_SpecificRowPreferred ==
    (/\ Returned /\ calc.req.gender = "female"
     /\ (calc.req.pregnancy \/ calc.req.lactation)
     /\ SpecificRows # {} /\ GenericRows # {})
        => calc.guidelines \in SpecificRows

\* The five tiers as the claim lists them.
ClaimTier(n) ==
    LET mentions(r) == ILike(r.notes, text_pregnancy) \/ ILike(r.notes, text_lactation)
        inRange(r) == r.country = calc.req.country /\ r.age_min <= calc.req.age
                      /\ calc.req.age <= r.age_max
    IN CASE n = 1 -> IF calc.req.gender = "female" /\ (calc.req.pregnancy \/ calc.req.lactation)
                     THEN SpecificRows ELSE {}
         [] n = 2 -> {r \in calc.table : inRange(r) /\ r.gender = calc.req.gender /\ r.notes = NullNotes}
         [] n = 3 -> {r \in calc.table : inRange(r) /\ r.gender = "common" /\ r.notes = NullNotes}
         [] n = 4 -> {r \in calc.table : /\ inRange(r) /\ r.gender = calc.req.gender
                                         /\ r.notes # NullNotes /\ ~mentions(r)}
         [] OTHER -> {r \in calc.table : /\ inRange(r) /\ r.gender = "common"
                                         /\ r.notes # NullNotes /\ ~mentions(r)}

\* C2: on a table in which each tier matches at most one row, getGuidelines
\* returns the row of the lowest-numbered non-empty tier, and null, without an
\* error, when all five are empty.
C2_LowestTierWins ==
    (Returned /\ \A n \in 1..5 : Cardinality(ClaimTier(n)) <= 1) =>
        IF \A n \in 1..5 : ClaimTier(n) = {}
        THEN calc.guidelines = NoRow
        ELSE LET first == CHOOSE n \in 1..5 : ClaimTier(n) # {} /\ \A m \in 1..(n - 1) : ClaimTier(m) = {}
             IN calc.guidelines \in ClaimTier(first)

\* C6: when the row calculateClientRequirements got from the resolver is a
\* tier-1 match, every nutrient's primary value in the result is the row's
\* value times the activity multiplier only.
C6_NoDoubleCounting ==
    (calc.pc = "done" /\ calc.outcome = "requirements" /\ calc.matched = 1) =>
        \A key \in RowKeys :
            LET b == getPrimaryValue(micronutrientsOf(calc.guidelines)[key], calc.req.country)
                a == IF calc.activityLevel # Undefined /\ calc.activityLevel # "sedentary"
                     THEN MultiplierOf(activityAdjustments(calc.activityLevel), key) ELSE <<1, 1>>
            IN getPrimaryValue(calc.requirements[key], calc.req.country) =
                    IF b.k = "num" THEN Times(b, a) ELSE b

\* ---------------------------------------------------------------- claims about the store

\* C3: with saveClientRequirements calls made one at a time, every client has
\* at most one row with is_active = true.
C3_AtMostOneActive ==
    \A client \in Clients : Cardinality(ActiveRows(client)) <= 1

\* Calls i and j are for one client, both inserted a row, and each one's
\* deactivation update was carried out before the other's insert.
BothDeactivatedBeforeEitherInserted(i, j) ==
    /\ calls[i].client_id = calls[j].client_id
    /\ calls[i].outcome = "data" /\ calls[j].outcome = "data"
    /\ calls[i].row > calls[j].deactivatedAt /\ calls[j].row > calls[i].deactivatedAt

\* No third call has carried out a deactivation for the client of i since row n
\* was inserted.
NoLaterDeactivation(i, j, n) ==
    \A k \in 1..Len(calls) :
        (k \notin {i, j} /\ calls[k].client_id = calls[i].client_id /\ calls[k].pc # "deactivate"
         /\ ~calls[k].deactivateFailed) => calls[k].deactivatedAt < n

\* C4: when two overlapping calls for one client have both completed their
\* deactivation before either inserted, and both inserted an active row, the
\* store holds both rows with is_active = true.
C4_RaceLeavesTwoActive ==
    \A i, j \in 1..Len(calls) :
        (/\ i # j /\ BothDeactivatedBeforeEitherInserted(i, j)
         /\ calls[i].is_active /\ calls[j].is_active
         /\ NoLaterDeactivation(i, j, calls[i].row) /\ NoLaterDeactivation(i, j, calls[j].row))
            => store[calls[i].row].is_active /\ store[calls[j].row].is_active

\* C4 witness: two calls for one client whose deactivation updates both
\* succeeded before either insert have returned, and the client has two active rows.
C4_Witness ==
    \E i, j \in 1..Len(calls) :
        /\ i # j /\ BothDeactivatedBeforeEitherInserted(i, j)
        /\ ~calls[i].deactivateFailed /\ ~calls[j].deactivateFailed
        /\ calls[i].pc = "done" /\ calls[j].pc = "done"
        /\ Cardinality(ActiveRows(calls[i].client_id)) = 2

\* C5: a call whose query reported a store failure has ended by throwing it:
\* no tier query of getGuidelines, no deactivation or insert of
\* saveClientRequirements and no read of getActiveClientRequirements is followed
\* by a later step or a normal or null result.
C5_FailuresPropagate ==
    /\ calc.failed # 0 => calc.pc = "done" /\ calc.outcome = "threw"
    /\ \A i \in 1..Len(calls) :
          (calls[i].deactivateFailed \/ calls[i].insertFailed)
              => calls[i].pc = "done" /\ calls[i].outcome = "threw"
    /\ \A i \in 1..Len(reads) : reads[i].failed => reads[i].outcome = "threw"

\* The latest saveClientRequirements call for the client, 0 when there is none.
LastSave(client) ==
    LET mine == {i \in 1..Len(calls) : calls[i].client_id = client}
    IN IF mine = {} THEN 0 ELSE CHOOSE i \in mine : \A j \in mine : j <= i

\* Every call entered so far has returned and none of its queries failed.
AllSavesSucceeded ==
    \A i \in 1..Len(calls) :
        calls[i].pc = "done" /\ ~calls[i].deactivateFailed /\ ~calls[i].insertFailed

\* The row the latest save for the client inserted, 0 when there is none.
LatestRow(client) == IF LastSave(client) = 0 THEN 0 ELSE calls[LastSave(client)].row

\* The client's only active row is the one its latest save inserted, every
\* earlier row of the client is inactive, and a read of the client made since
\* the last save returned that row (null when the client was never saved).
ReadsYourWrites ==
    /\ \A client \in Clients :
          /\ ActiveRows(client) = {LatestRow(client)} \ {0}
          /\ LatestRow(client) # 0 => store[LatestRow(client)].by = LastSave(client)
    /\ \A r \in 1..Len(reads) :
          (reads[r].stamp = Stamp /\ ~reads[r].failed)
              => /\ reads[r].row = LatestRow(reads[r].client_id)
                 /\ reads[r].outcome = IF reads[r].row = 0 THEN "null" ELSE "data"

\* A step changes or adds only rows of the client of the call that takes it.
OtherClientsUnaffected ==
    /\ Len(store') >= Len(store)
    /\ \A k \in 1..Len(store') :
          (k > Len(store) \/ store'[k] # store[k])
              => \E i \in 1..Len(calls) :
                    /\ calls'[i] # calls[i]
                    /\ calls[i].client_id = store'[k].client_id

\* C11 as stated: after calls made one at a time whose queries all succeeded,
\* getActiveClientRequirements returns the record of the client's latest save
\* (null when there is none) and the client's earlier records are inactive,
\* whatever is_active the saved records carry.
C11_ReadYourWritesAsStated ==
    AllSavesSucceeded => ReadsYourWrites

\* C11: after saveClientRequirements calls made one at a time whose queries all
\* succeeded and whose records all carry is_active = true,
\* getActiveClientRequirements returns exactly the record of the client's
\* latest save (null when there is none), the client's earlier records are all
\* inactive, and no step of a save touches a record of another client.
C11_ReadYourWrites ==
    /\ [](AllSavesSucceeded /\ (\A i \in 1..Len(calls) : calls[i].is_active)
             => ReadsYourWrites)
    /\ [][OtherClientsUnaffected]_vars

\* C11 witness: two successful saves of active records for one client, and a
\* read made after the second returned the second's row; the first is inactive.
C11_Witness ==
    /\ Len(calls) = 2 /\ AllSavesSucceeded
    /\ calls[1].client_id = calls[2].client_id
    /\ calls[1].is_active /\ calls[2].is_active
    /\ ~store[calls[1].row].is_active
    /\ reads # <<>> /\ reads[1].stamp = Stamp /\ ~reads[1].failed
    /\ reads[1].client_id = calls[2].client_id
    /\ reads[1].outcome = "data" /\ reads[1].row = calls[2].row

\* ---------------------------------------------------------------- claims about the comparator

\* The status rule as stated, a limit "existing" or being "set" when it is a number.
StatedStatus(country, required, intake, upperLimit, lowerLimit) ==
    LET req == IF required.k = "num" THEN required ELSE Zero IN
    IF country = "UK" /\ lowerLimit.k = "num"
    THEN CASE Less(intake, lowerLimit) -> "deficient"
           [] ~Less(intake, lowerLimit) /\ Less(intake, req) -> "low"
           [] OTHER -> IF upperLimit.k = "num" /\ Less(upperLimit, intake) THEN "excessive"
                       ELSE IF Less(Times(req, <<3, 2>>), intake) THEN "high" ELSE "adequate"
    ELSE CASE Less(intake, Times(req, <<7, 10>>)) -> "deficient"
           [] ~Less(intake, Times(req, <<7, 10>>)) /\ Less(intake, req) -> "low"
           [] OTHER -> IF upperLimit.k = "num" /\ Less(upperLimit, intake) THEN "excessive"
                       ELSE IF Less(Times(req, <<3, 2>>), intake) THEN "high" ELSE "adequate"

\* The same rule, a limit existing or being set when it is a non-zero number.
AmendedStatus(country, required, intake, upperLimit, lowerLimit) ==
    LET nonZero(v) == IF v.k = "num" /\ v.n # 0 THEN v ELSE Null IN
    StatedStatus(country, required, intake, nonZero(upperLimit), nonZero(lowerLimit))

CmpIntake(key) ==
    IF key \in DOMAIN cmp.dailyIntake THEN cmp.dailyIntake[key] ELSE Zero

\* C10 as stated: every nutrient of the requirement gets the status of the
\* ordered rule, a lower limit that exists and an upper limit that is set
\* being any number.
C10_StatusAsStated ==
    cmp.pc = "done" =>
        /\ DOMAIN cmp.comparison = DOMAIN cmp.recommendations
        /\ \A key \in DOMAIN cmp.recommendations :
            LET nv == cmp.recommendations[key] IN
            cmp.comparison[key].status =
                StatedStatus(cmp.country, getPrimaryValue(nv, cmp.country), CmpIntake(key),
                             nv.ul, nv.lrni)

\* C10 amended: every nutrient of the requirement gets the status of the
\* ordered rule, where a lower limit exists and an upper limit is set only when
\* it is a non-zero number; a missing intake counts as 0.
C10_StatusRule ==
    cmp.pc = "done" =>
        /\ DOMAIN cmp.comparison = DOMAIN cmp.recommendations
        /\ \A key \in DOMAIN cmp.recommendations :
            LET nv == cmp.recommendations[key] IN
            cmp.comparison[key].status =
                AmendedStatus(cmp.country, getPrimaryValue(nv, cmp.country), CmpIntake(key),
                              nv.ul, nv.lrni)

\* C10 witness: UK, lower limit 50, required 100, upper limit 120 and intake
\* 160 has been compared; the intake is above the upper limit and above 1.5
\* times the requirement, and the status is excessive.
C10_Witness ==
    /\ cmp.pc = "done" /\ cmp.country = "UK"
    /\ cmp.recommendations["iron"].lrni = Num(50, 1)
    /\ cmp.recommendations["iron"].rni = Num(100, 1)
    /\ cmp.recommendations["iron"].ul = Num(120, 1)
    /\ CmpIntake("iron") = Num(160, 1)
    /\ cmp.comparison["iron"].status = "excessive"

\* ---------------------------------------------------------------- claims about the adjuster

AdjResult == Deref(adj.heap, adj.adjusted)

\* C7: when applyAdjustments has returned, every nutrient of the base table with
\* a non-zero primary value has primary value base * a * p * l in the result:
\* a the activity multiplier when activityLevel is set and not 'sedentary', p the
\* pregnancy multiplier when pregnancy is true, l the lactation multiplier when
\* lactation is true, each 1 otherwise or when the nutrient is not in the table.
C7_PassesCompose ==
    adj.pc = "done" =>
        \A key \in DOMAIN adj.before :
            LET b == getPrimaryValue(adj.before[key], adj.country)
                f == adj.factors
                a == IF f.given /\ f.activityLevel # Undefined /\ f.activityLevel # "sedentary"
                     THEN MultiplierOf(activityAdjustments(f.activityLevel), key) ELSE <<1, 1>>
                p == IF f.given /\ f.pregnancy
                     THEN MultiplierOf(pregnancyAdjustments, key) ELSE <<1, 1>>
                l == IF f.given /\ f.lactation
                     THEN MultiplierOf(lactationAdjustments, key) ELSE <<1, 1>>
            IN Truthy(b) =>
                /\ key \in DOMAIN adj.adjusted
                /\ getPrimaryValue(AdjResult[key], adj.country) = Times(Times(Times(b, a), p), l)

\* C7 witness: folate rda 400 (US), pregnancy only, has returned rda 600.
C7_Witness ==
    /\ adj.pc = "done" /\ adj.country = "US" /\ "folate" \in DOMAIN adj.before
    /\ adj.before["folate"].rda = Num(400, 1)
    /\ adj.factors.given /\ adj.factors.pregnancy /\ ~adj.factors.lactation
    /\ ~ActivityApplies(adj.factors)
    /\ AdjResult["folate"].rda = Num(600, 1)

\* C8: from the clone on, the caller's table is field-for-field what it was at
\* the call, and the returned table has the same keys and shares no nutrient
\* object with it.
C8_InputNotMutated ==
    adj.pc \notin {"idle", "call"} =>
        /\ Deref(adj.heap, adj.base) = adj.before
        /\ DOMAIN adj.adjusted = DOMAIN adj.base
        /\ \A k1 \in DOMAIN adj.adjusted, k2 \in DOMAIN adj.base : adj.adjusted[k1] # adj.base[k2]

\* C8 witness: a call has returned a table in which a value differs from the input's.
C8_Witness ==
    /\ adj.pc = "done" /\ DOMAIN adj.base # {}
    /\ AdjResult # adj.before

\* The primary field of a nutrient for a country: UK rni; EU pri if present and
\* non-null, else ai; WHO rni if present and non-null, else ai; US/India rda.
PrimaryField(nutrient, country) ==
    CASE country = "UK" -> "rni"
      [] country = "EU" -> IF nutrient.pri.k = "num" THEN "pri" ELSE "ai"
      [] country = "WHO" -> IF nutrient.rni.k = "num" THEN "rni" ELSE "ai"
      [] OTHER -> "rda"

\* C9: after a pass, the table has the keys it had, no object was added, and
\* each nutrient differs from what it was before the pass in its primary field
\* at most: a nutrient listed in the pass's table has primary * multiplier there
\* (a primary field that holds no number is left as it was), every other
\* nutrient and every object outside the table is unchanged.
C9_OnlyPrimaryFieldChanges ==
    adj.pass # "none" =>
        /\ DOMAIN adj.adjusted = DOMAIN adj.base
        /\ Len(adj.heap) = Len(adj.prev)
        /\ \A a \in 1..Len(adj.heap) :
              (\A key \in DOMAIN adj.adjusted : adj.adjusted[key] # a) => adj.heap[a] = adj.prev[a]
        /\ \A key \in DOMAIN adj.adjusted :
              LET old == adj.prev[adj.adjusted[key]]
                  new == adj.heap[adj.adjusted[key]]
                  pf == PrimaryField(old, adj.country)
              IN /\ \A f \in Fields \ {pf} : new[f] = old[f]
                 /\ new[pf] = IF key \in KeysOf(adj.multipliers) /\ old[pf].k = "num"
                              THEN Times(old[pf], MultiplierOf(adj.multipliers, key))
                              ELSE old[pf]

\* C9 witness: the pregnancy pass has run for EU on a table without folate whose
\* zinc has a null pri, and zinc's ai was multiplied.
C9_Witness ==
    /\ adj.pass = "pregnancy" /\ adj.country = "EU"
    /\ "folate" \notin DOMAIN adj.adjusted /\ "zinc" \in DOMAIN adj.adjusted
    /\ adj.prev[adj.adjusted["zinc"]].pri = Null
    /\ adj.heap[adj.adjusted["zinc"]].ai # adj.prev[adj.adjusted["zinc"]].ai

====
